---- MODULE Spec2Model ----
(***************************************************************************)
(* State-machine model of LocaltuyaVacuum                                  *)
(* (custom_components/localtuya/vacuum.py): the status decoder             *)
(* (status_updated), the geometry transform (rotate_coordinates,           *)
(* get_relative_position, calculate_absolute_position) and the command     *)
(* methods (async_start .. async_send_command).                            *)
(*                                                                         *)
(* Python values are modelled as tagged records of one shape so that any   *)
(* two of them can be compared: [t, s, n] for datapoint values (None, str, *)
(* int, bool), [t, x, y] for a decoded posArray element.  Floats are       *)
(* modelled as exact rationals <<numerator, denominator>>.                 *)
(***************************************************************************)
EXTENDS Integers, Sequences, FiniteSets, TLC

(***************************************************************************)
(* Bounds of the model.                                                    *)
(***************************************************************************)
\* raw device coordinates range over -MaxCoord..MaxCoord
MaxCoord == 1
\* snapshot values of the numeric datapoints range over 1..MaxGen
MaxGen == 2
\* at most MaxSuspended calls are suspended at their await at a time
MaxSuspended == 1

(***************************************************************************)
(* Python values.                                                          *)
(***************************************************************************)
NoneV == [t |-> "none", s |-> "", n |-> 0]
StrV(x) == [t |-> "str", s |-> x, n |-> 0]
IntV(k) == [t |-> "int", s |-> "", n |-> k]
BoolV(b) == [t |-> "bool", s |-> "", n |-> IF b THEN 1 ELSE 0]
\* a key that is not in a dict
Absent == [t |-> "absent", s |-> "", n |-> 0]

\* str(value), as used on the primary status value
PyStr(v) ==
    CASE v.t = "none" -> "None"
      [] v.t = "str" -> v.s
      [] v.t = "bool" -> IF v.n = 1 THEN "True" ELSE "False"
      [] OTHER -> "<int>"

\* value != 0 (None != 0 and "x" != 0 are True; False != 0 is False)
PyNeZero(v) == ~(v.t \in {"int", "bool"} /\ v.n = 0)

\* element in list, for a list of str
InList(x, list) == \E i \in 1..Len(list) : list[i] = x

(***************************************************************************)
(* homeassistant.components.vacuum state constants.                        *)
(***************************************************************************)
STATE_CLEANING == "cleaning"
STATE_DOCKED == "docked"
STATE_ERROR == "error"
STATE_IDLE == "idle"
STATE_PAUSED == "paused"
STATE_RETURNING == "returning"
\* self._state = None
STATE_NONE == "None"

VacuumStates ==
    {STATE_IDLE, STATE_DOCKED, STATE_RETURNING, STATE_PAUSED, STATE_CLEANING, STATE_ERROR}

(***************************************************************************)
(* Exact rationals <<n, d>>, d > 0, in lowest terms: the model of float.   *)
(***************************************************************************)
Abs(a) == IF a < 0 THEN -a ELSE a

RECURSIVE Gcd(_, _)
Gcd(a, b) == IF b = 0 THEN a ELSE Gcd(b, a % b)

Rat(n, d) ==
    LET s == IF d < 0 THEN -1 ELSE 1
        g == Gcd(Abs(n), Abs(d))
    IN  <<(s * n) \div g, (s * d) \div g>>

RatInt(k) == <<k, 1>>
RatAdd(a, b) == Rat(a[1] * b[2] + b[1] * a[2], a[2] * b[2])
RatSub(a, b) == Rat(a[1] * b[2] - b[1] * a[2], a[2] * b[2])
RatMul(a, b) == Rat(a[1] * b[1], a[2] * b[2])
RatNeg(a) == <<-a[1], a[2]>>
\* a / b, b # 0
RatDiv(a, b) == Rat(a[1] * b[2], a[2] * b[1])
RatIsZero(a) == a[1] = 0

\* round that takes a half to the integer farther from zero
PyRound_HalfAwayFromZero(a) ==
    LET q == a[1] \div a[2]
        r == a[1] % a[2]
    IN  IF 2 * r < a[2] THEN q
        ELSE IF 2 * r > a[2] THEN q + 1
        ELSE IF q >= 0 THEN q + 1 ELSE q

\* Python round(x) of a float: to the nearest integer, halves to the even one
PyRound(a) ==
    LET q == a[1] \div a[2]
        r == a[1] % a[2]
    IN  IF 2 * r < a[2] THEN q
        ELSE IF 2 * r > a[2] THEN q + 1
        ELSE IF q % 2 = 0 THEN q ELSE q + 1

(***************************************************************************)
(* Configuration (const.py names; vacuum.py flow_schema).  A configuration *)
(* is a record: `has' is the set of option names present in the entry, the *)
(* other fields are the values of those options (ignored when absent).     *)
(* Comma-separated option strings are kept as the sequence of their items, *)
(* which is what str.split(",") returns.                                   *)
(***************************************************************************)
CONF_BATTERY_DP == "battery_dp"
CONF_CLEAN_AREA_DP == "clean_area_dp"
CONF_CLEAN_RECORD_DP == "clean_record_dp"
CONF_CLEAN_TIME_DP == "clean_time_dp"
CONF_DOCKED_STATUS_VALUE == "docked_status_value"
CONF_FAN_SPEED_DP == "fan_speed_dp"
CONF_FAN_SPEEDS == "fan_speeds"
CONF_FAULT_DP == "fault_dp"
CONF_IDLE_STATUS_VALUE == "idle_status_value"
CONF_LOCATE_DP == "locate_dp"
CONF_MODE_DP == "mode_dp"
CONF_MODES == "modes"
CONF_PAUSED_STATE == "paused_state"
CONF_POWERGO_DP == "powergo_dp"
CONF_RETURN_MODE == "return_mode"
CONF_RETURNING_STATUS_VALUE == "returning_status_value"
CONF_STOP_STATUS == "stop_status"
CONF_POSITION_BASE64_DP == "position_base64_dp"
CONF_POSITION_RELATIVE_SCALE == "position_relative_scale"
CONF_POSITION_RELATIVE_ORIGIN == "position_relative_origin"
CONF_POSITION_AXIS_ROTATION == "position_axis_rotation"
\* the entity's own datapoint (self._dp_id), the primary status value
CONF_ID == "id"

DEFAULT_IDLE_STATUS == <<"standby", "sleep">>
DEFAULT_RETURNING_STATUS == "docking"
DEFAULT_DOCKED_STATUS == <<"charging", "chargecompleted">>
DEFAULT_PAUSED_STATE == "paused"
DEFAULT_RETURN_MODE == "chargego"

\* options flow_schema marks Required, or Optional with a default: every entry has them
SchemaAlways ==
    {CONF_ID, CONF_IDLE_STATUS_VALUE, CONF_POWERGO_DP, CONF_DOCKED_STATUS_VALUE,
     CONF_RETURNING_STATUS_VALUE, CONF_MODES, CONF_RETURN_MODE, CONF_FAN_SPEEDS,
     CONF_PAUSED_STATE, CONF_STOP_STATUS}

\* options flow_schema marks Optional without a default
SchemaOptional ==
    {CONF_BATTERY_DP, CONF_MODE_DP, CONF_FAN_SPEED_DP, CONF_CLEAN_TIME_DP,
     CONF_CLEAN_AREA_DP, CONF_CLEAN_RECORD_DP, CONF_LOCATE_DP, CONF_FAULT_DP,
     CONF_POSITION_BASE64_DP, CONF_POSITION_RELATIVE_SCALE,
     CONF_POSITION_RELATIVE_ORIGIN, CONF_POSITION_AXIS_ROTATION}

\* the datapoint each *_dp option is bound to in the modelled devices
DpOf ==
    [id |-> 5, powergo_dp |-> 2, battery_dp |-> 6, mode_dp |-> 3, fan_speed_dp |-> 9,
     clean_time_dp |-> 7, clean_area_dp |-> 8, clean_record_dp |-> 15,
     locate_dp |-> 13, fault_dp |-> 11, position_base64_dp |-> 121]

DpKeys == DOMAIN DpOf

\* the datapoints of the cached status (the position blob is read from the update)
StatusDps == {DpOf[k] : k \in DpKeys \ {"powergo_dp", "locate_dp", "position_base64_dp"}}

(***************************************************************************)
(* The configurations the model constructs entities from.                  *)
(***************************************************************************)
DefaultLists ==
    [idle |-> DEFAULT_IDLE_STATUS, docked |-> DEFAULT_DOCKED_STATUS,
     returning |-> DEFAULT_RETURNING_STATUS, paused |-> DEFAULT_PAUSED_STATE]

\* status values shared between the lists: "charging" is idle and docked,
\* "docking" is docked, returning and paused
OverlapLists ==
    [idle |-> <<"standby", "charging">>, docked |-> <<"charging", "docking">>,
     returning |-> "docking", paused |-> "docking"]

\* "paused" is both the returning and the paused value; True is an idle value
ShadowLists ==
    [idle |-> <<"True">>, docked |-> <<"charging">>,
     returning |-> "paused", paused |-> "paused"]

GeometryKeys ==
    {CONF_POSITION_RELATIVE_SCALE, CONF_POSITION_RELATIVE_ORIGIN, CONF_POSITION_AXIS_ROTATION}

FullProfile == SchemaOptional
BareProfile == {}
CommandProfile == {CONF_MODE_DP, CONF_LOCATE_DP, CONF_CLEAN_AREA_DP, CONF_CLEAN_RECORD_DP}

\* float values of the scale option
Scales == {Rat(0, 1), Rat(1, 1), Rat(2, 1), Rat(1, 2), Rat(-1, 1)}
\* parsed values of the origin option
Origins == {<<Rat(0, 1), Rat(0, 1)>>, <<Rat(10, 1), Rat(20, 1)>>, <<Rat(1, 2), Rat(-1, 4)>>}
\* values of the rotation option: the four modes, and one that is none of them
Rotations == 0..4

MkConfig(has, lists, scale, origin, rotation) ==
    [has |-> SchemaAlways \cup has,
     idle_status_value |-> lists.idle,
     docked_status_value |-> lists.docked,
     returning_status_value |-> lists.returning,
     paused_state |-> lists.paused,
     return_mode |-> DEFAULT_RETURN_MODE,
     position_relative_scale |-> scale,
     position_relative_origin |-> origin,
     position_axis_rotation |-> rotation]

\* entities of the geometry specification: every scale, origin and rotation
GeoConfigs ==
    {MkConfig(GeometryKeys \cup {CONF_POSITION_BASE64_DP}, DefaultLists, s, o, r) :
        s \in Scales, o \in Origins, r \in Rotations}

(***************************************************************************)
(* State.                                                                  *)
(***************************************************************************)
VARIABLES
    _config,                    \* self._config, the entity's options
    _status,                    \* self._status, datapoint id -> cached value
    _state,                     \* self._state
    _battery_level,             \* self._battery_level
    _attrs,                     \* self._attrs
    _fan_speed,                 \* self._fan_speed
    _cleaning_mode,             \* self._cleaning_mode
    _idle_status_list,          \* self._idle_status_list
    _docked_status_list,        \* self._docked_status_list
    _position_relative_scale,   \* self._position_relative_scale
    _position_relative_origin,  \* self._position_relative_origin
    _position_axis_rotation,    \* self._position_axis_rotation
    op,                         \* the last call made on the entity, with its arguments
    writes,                     \* the set_dp calls that call issued, in order
    raised,                     \* the exception that call raised to its caller, or "none"
    log,                        \* the messages that call logged at info or error level
    set_dp_result,              \* how the set_dp that call awaited ended: "ok" or
                                \* "failed", and "none" when it awaited none
    suspended                   \* the calls suspended at their await of set_dp

configVars ==
    <<_config, _idle_status_list, _docked_status_list, _position_relative_scale,
      _position_relative_origin, _position_axis_rotation>>
decoderVars == <<_status, _state, _battery_level, _attrs, _fan_speed, _cleaning_mode>>
callVars == <<op, writes, raised, log, set_dp_result>>
vars == <<configVars, decoderVars, callVars, suspended>>

\* LocalTuyaEntity.has_config: the option is in the entry
has_config(attr) == attr \in _config.has

\* LocalTuyaEntity.dps: the cached value of a datapoint, None when it has none
dps(status, dp_index) == IF dp_index \in DOMAIN status THEN status[dp_index] ELSE NoneV

\* LocalTuyaEntity.dps_conf: the value of the datapoint an option names, None
\* when the option is absent
dps_conf(status, conf_item) ==
    IF has_config(conf_item) THEN dps(status, DpOf[conf_item]) ELSE NoneV

\* a decoded posArray element, and the value of self._attrs[POSITION]
NoneE == [t |-> "none", x |-> 0, y |-> 0]
AbsentE == [t |-> "absent", x |-> 0, y |-> 0]
PairE(x, y) == [t |-> "pair", x |-> x, y |-> y]
\* self._attrs[RELATIVE_POSITION]: a pair of floats, or the key is absent
AbsentR == [t |-> "absent", x |-> Rat(0, 1), y |-> Rat(0, 1)]
PairR(x, y) == [t |-> "pair", x |-> x, y |-> y]

\* a call on the entity: the method, and the arguments of those that take any
Call(name) == [name |-> name, command |-> "", fan_speed |-> "", params |-> <<>>]

\* LocaltuyaVacuum.__init__
Construct(c) ==
    /\ _config = c
    /\ _status = [d \in StatusDps |-> NoneV]
    /\ _state = STATE_NONE
    /\ _battery_level = NoneV
    /\ _attrs = [path |-> <<>>, cleaning_mode |-> Absent, clean_time |-> Absent,
                 clean_area |-> Absent, clean_record |-> Absent, fault |-> Absent,
                 position |-> AbsentE, relative_position |-> AbsentR]
    /\ _idle_status_list =
          IF CONF_IDLE_STATUS_VALUE \in c.has THEN c.idle_status_value ELSE <<>>
    /\ _docked_status_list =
          IF CONF_DOCKED_STATUS_VALUE \in c.has THEN c.docked_status_value ELSE <<>>
    /\ _position_relative_scale =
          IF CONF_POSITION_RELATIVE_SCALE \in c.has THEN c.position_relative_scale
          ELSE Rat(1, 1)
    /\ _position_relative_origin =
          IF CONF_POSITION_RELATIVE_ORIGIN \in c.has THEN c.position_relative_origin
          ELSE <<Rat(0, 1), Rat(0, 1)>>
    /\ _position_axis_rotation =
          IF CONF_POSITION_AXIS_ROTATION \in c.has THEN c.position_axis_rotation ELSE 0
    /\ _fan_speed = StrV("")
    /\ _cleaning_mode = StrV("")
    /\ op = Call("__init__")
    /\ writes = <<>>
    /\ raised = "none"
    /\ log = {}
    /\ set_dp_result = "none"
    /\ suspended = <<>>

(***************************************************************************)
(* Geometry transform.                                                     *)
(***************************************************************************)
\* rotate_coordinates whose mode 1 is a quarter turn instead of the axis swap
rotate_coordinates_QuarterTurn(px, py) ==
    IF _position_axis_rotation = 0 THEN <<px, RatNeg(py)>>
    ELSE IF _position_axis_rotation = 1 THEN <<py, RatNeg(px)>>
    ELSE IF _position_axis_rotation = 2 THEN <<RatNeg(px), py>>
    ELSE IF _position_axis_rotation = 3 THEN <<RatNeg(px), RatNeg(py)>>
    ELSE <<px, py>>

\* LocaltuyaVacuum.rotate_coordinates
rotate_coordinates(px, py) ==
    IF _position_axis_rotation = 0 THEN <<px, RatNeg(py)>>
    ELSE IF _position_axis_rotation = 1 THEN <<py, px>>
    ELSE IF _position_axis_rotation = 2 THEN <<RatNeg(px), py>>
    ELSE IF _position_axis_rotation = 3 THEN <<RatNeg(px), RatNeg(py)>>
    ELSE <<px, py>>

\* LocaltuyaVacuum.get_relative_position, on the attributes `attrs':
\* [exc |-> the exception it raises or "none", val |-> what it returns]
get_relative_position(attrs) ==
    LET position == IF attrs.position.t = "absent" THEN NoneE ELSE attrs.position
        rot == rotate_coordinates(RatInt(position.x), RatInt(position.y))
        px == RatAdd(RatMul(rot[1], _position_relative_scale), _position_relative_origin[1])
        py == RatAdd(RatMul(rot[2], _position_relative_scale), _position_relative_origin[2])
    IN  CASE position.t = "none" -> [exc |-> "none", val |-> AbsentR]
          \* px, py = position: an int cannot be unpacked
          [] position.t = "num" -> [exc |-> "TypeError", val |-> AbsentR]
          \* too many values to unpack
          [] position.t = "triple" -> [exc |-> "ValueError", val |-> AbsentR]
          \* a two-character str unpacks; negating or scaling and offsetting it fails
          [] position.t = "str" -> [exc |-> "TypeError", val |-> AbsentR]
          [] OTHER -> [exc |-> "none", val |-> PairR(px, py)]

\* calculate_absolute_position that divides by the scale before it subtracts
\* the origin
calculate_absolute_position_OriginAfterScale(x, y) ==
    IF RatIsZero(_position_relative_scale)
    THEN [exc |-> "ZeroDivisionError", x |-> 0, y |-> 0]
    ELSE LET px == RatSub(RatDiv(x, _position_relative_scale), _position_relative_origin[1])
             py == RatSub(RatDiv(y, _position_relative_scale), _position_relative_origin[2])
             rot == rotate_coordinates(px, py)
         IN  [exc |-> "none", x |-> PyRound(rot[1]), y |-> PyRound(rot[2])]

\* LocaltuyaVacuum.calculate_absolute_position:
\* [exc |-> the exception it raises or "none", x, y |-> the pair it returns]
calculate_absolute_position(x, y) ==
    IF RatIsZero(_position_relative_scale)
    THEN [exc |-> "ZeroDivisionError", x |-> 0, y |-> 0]
    ELSE LET px == RatDiv(RatSub(x, _position_relative_origin[1]), _position_relative_scale)
             py == RatDiv(RatSub(y, _position_relative_origin[2]), _position_relative_scale)
             rot == rotate_coordinates(px, py)
         IN  [exc |-> "none", x |-> PyRound(rot[1]), y |-> PyRound(rot[2])]

(***************************************************************************)
(* The position blob of a status update.  A blob is described by what each *)
(* decoding step makes of it:                                              *)
(*   b64      "ok", or the exception base64.b64decode raises               *)
(*   json     "ok", or the exception json.loads raises                     *)
(*   top      "obj" when the document is an object, else "other"           *)
(*   data     "obj", "missing", or "other" (present and not an object)     *)
(*   posArray "list", "missing", "null" or "num"                           *)
(*   elems    the elements of the list                                     *)
(***************************************************************************)
Blob(b64, json, top, data, posArray, elems) ==
    [b64 |-> b64, json |-> json, top |-> top, data |-> data,
     posArray |-> posArray, elems |-> elems]

PosArrayBlob(elems) == Blob("ok", "ok", "obj", "obj", "list", elems)

Coords == (0 - MaxCoord)..MaxCoord

\* blobs holding exactly one coordinate pair
ValidBlobs == {PosArrayBlob(<<PairE(x, y)>>) : x, y \in Coords}

\* what the single element is when it is no coordinate pair
BadElements ==
    {[t |-> "num", x |-> 7, y |-> 0], [t |-> "triple", x |-> 1, y |-> 2],
     [t |-> "str", x |-> 0, y |-> 0], NoneE}

MalformedBlobs ==
    {Blob("binascii.Error", "ok", "obj", "obj", "list", <<>>),   \* "not-base64!!"
     Blob("TypeError", "ok", "obj", "obj", "list", <<>>),        \* the value is not a str
     Blob("ok", "JSONDecodeError", "obj", "obj", "list", <<>>),  \* not JSON
     Blob("ok", "UnicodeDecodeError", "obj", "obj", "list", <<>>),\* bytes that are not UTF-8
     Blob("ok", "ok", "other", "obj", "list", <<>>),             \* a JSON list or number
     Blob("ok", "ok", "obj", "other", "list", <<>>),             \* {"data": 5}
     Blob("ok", "ok", "obj", "missing", "list", <<>>),           \* {}
     Blob("ok", "ok", "obj", "obj", "missing", <<>>),            \* {"data": {}}
     Blob("ok", "ok", "obj", "obj", "null", <<>>),               \* posArray: null
     Blob("ok", "ok", "obj", "obj", "num", <<>>),                \* posArray: 5
     PosArrayBlob(<<>>),
     PosArrayBlob(<<PairE(0, 0), PairE(1, 1)>>)}
    \cup {PosArrayBlob(<<e>>) : e \in BadElements}

\* the exceptions the try block of status_updated catches
CaughtExceptions == {"JSONDecodeError", "TypeError", "IndexError", "binascii.Error"}

\* DecodePosition that gives up on the attributes when the blob cannot be decoded
DecodePosition_Aborting(attrs, p) ==
    IF p.b64 # "ok" \/ p.json # "ok" \/ p.top # "obj" \/ p.data = "other"
    THEN [attrs |-> _attrs, exc |-> "TypeError"]
    ELSE [attrs |-> attrs, exc |-> "none"]

\* DecodePosition with the append of line 371 in force: every new relative
\* position is added to the path
DecodePosition_AppendingPath(attrs, p) ==
    IF p.b64 = "ok" /\ p.json = "ok" /\ p.top = "obj" /\ p.data = "obj"
       /\ p.posArray = "list" /\ Len(p.elems) = 1 /\ p.elems[1].t = "pair"
       /\ p.elems[1] # attrs.position
    THEN LET stored == [attrs EXCEPT !.position = p.elems[1]]
             relative == get_relative_position(stored).val
         IN  [attrs |-> [stored EXCEPT !.relative_position = relative,
                                       !.path = Append(@, relative)],
              exc |-> "none"]
    ELSE [attrs |-> attrs, exc |-> "none"]

\* the try block of status_updated on the blob `p', from the attributes `attrs':
\* [attrs |-> the attributes it leaves, exc |-> the exception it ends with or "none"]
DecodePosition(attrs, p) ==
    LET parse ==                          \* json.loads(base64.b64decode(position))
            IF p.b64 # "ok" THEN p.b64
            ELSE IF p.json # "ok" THEN p.json
            ELSE "none"
        getData ==                        \* decoded_json.get('data', {})
            IF p.top # "obj" THEN "AttributeError" ELSE "none"
        getArray ==                       \* .get('posArray', [])
            IF p.data = "other" THEN "AttributeError" ELSE "none"
        position_array ==
            IF p.data = "missing" \/ p.posArray = "missing" THEN [k |-> "list", v |-> <<>>]
            ELSE [k |-> p.posArray, v |-> p.elems]
        last_position == IF attrs.position.t = "absent" THEN NoneE ELSE attrs.position
        new_position == position_array.v[1]
        stored == [attrs EXCEPT !.position = new_position]
        relative == get_relative_position(stored)
    IN  IF parse # "none" THEN [attrs |-> attrs, exc |-> parse]
        ELSE IF getData # "none" THEN [attrs |-> attrs, exc |-> getData]
        ELSE IF getArray # "none" THEN [attrs |-> attrs, exc |-> getArray]
        ELSE IF position_array.k = "null" THEN [attrs |-> attrs, exc |-> "none"]
        \* len(5)
        ELSE IF position_array.k = "num" THEN [attrs |-> attrs, exc |-> "TypeError"]
        ELSE IF Len(position_array.v) # 1 THEN [attrs |-> attrs, exc |-> "none"]
        ELSE IF last_position = new_position THEN [attrs |-> attrs, exc |-> "none"]
        ELSE IF relative.exc # "none" THEN [attrs |-> stored, exc |-> relative.exc]
        ELSE IF relative.val.t = "absent" THEN [attrs |-> stored, exc |-> "none"]
        ELSE [attrs |-> [stored EXCEPT !.relative_position = relative.val], exc |-> "none"]

(***************************************************************************)
(* Status decoder.                                                         *)
(***************************************************************************)
\* ResolveState with the docked list looked up before the idle list
ResolveState_DockedFirst(state_value) ==
    IF InList(state_value, _docked_status_list) THEN STATE_DOCKED
    ELSE IF InList(state_value, _idle_status_list) THEN STATE_IDLE
    ELSE IF state_value = _config.returning_status_value THEN STATE_RETURNING
    ELSE IF state_value = _config.paused_state THEN STATE_PAUSED
    ELSE STATE_CLEANING

\* ResolveState without its final else: an unmatched value leaves the state unset
ResolveState_NoDefault(state_value) ==
    IF InList(state_value, _idle_status_list) THEN STATE_IDLE
    ELSE IF InList(state_value, _docked_status_list) THEN STATE_DOCKED
    ELSE IF state_value = _config.returning_status_value THEN STATE_RETURNING
    ELSE IF state_value = _config.paused_state THEN STATE_PAUSED
    ELSE STATE_NONE

\* status_updated, lines 315-324: the state the primary status value resolves to
ResolveState(state_value) ==
    IF InList(state_value, _idle_status_list) THEN STATE_IDLE
    ELSE IF InList(state_value, _docked_status_list) THEN STATE_DOCKED
    ELSE IF state_value = _config.returning_status_value THEN STATE_RETURNING
    ELSE IF state_value = _config.paused_state THEN STATE_PAUSED
    ELSE STATE_CLEANING

\* status_updated, line 326: the update resets the path
LeavesDock(previous_state, new_state) ==
    previous_state = STATE_DOCKED /\ new_state # STATE_DOCKED

\* FaultOverride that spares a docked vacuum
FaultOverride_NotWhenDocked(state, fault) ==
    IF PyNeZero(fault) /\ state # STATE_DOCKED THEN STATE_ERROR ELSE state

\* status_updated, lines 351-354: the state after the fault datapoint was read
FaultOverride(state, fault) ==
    IF PyNeZero(fault) THEN STATE_ERROR ELSE state

\* Gated that assigns an attribute only while it holds no value yet
Gated_FirstValueWins(conf, old, new) ==
    IF has_config(conf) /\ old \in {NoneV, Absent, StrV("")} THEN new ELSE old

\* an attribute assigned from its datapoint only if the option `conf' is present
Gated(conf, old, new) == IF has_config(conf) THEN new ELSE old

\* PositionGate that decodes the blob of any snapshot that carries one
PositionGate_Ungated(pos) == pos.present

\* status_updated, lines 356-357: the position blob is decoded
PositionGate(pos) == has_config(CONF_POSITION_BASE64_DP) /\ pos.present

\* the body of status_updated on the snapshot `status', as a function of the
\* fields it reads (the state, battery level and attributes before the call):
\* the fields it leaves, whether it reset the path, and how the try block ended
StatusDecode(previous_state, battery_level, attrs, status, pos) ==
    LET state_value == PyStr(dps(status, DpOf[CONF_ID]))
        resolved == ResolveState(state_value)
        reset == LeavesDock(previous_state, resolved)
        a1 == IF reset THEN [attrs EXCEPT !.path = <<>>] ELSE attrs
        a2 == [a1 EXCEPT
                 !.cleaning_mode = Gated(CONF_MODES, @, dps_conf(status, CONF_MODE_DP)),
                 !.clean_time = Gated(CONF_CLEAN_TIME_DP, @, dps_conf(status, CONF_CLEAN_TIME_DP)),
                 !.clean_area = Gated(CONF_CLEAN_AREA_DP, @, dps_conf(status, CONF_CLEAN_AREA_DP)),
                 !.clean_record =
                     Gated(CONF_CLEAN_RECORD_DP, @, dps_conf(status, CONF_CLEAN_RECORD_DP)),
                 !.fault = Gated(CONF_FAULT_DP, @, dps_conf(status, CONF_FAULT_DP))]
        final_state ==
            IF has_config(CONF_FAULT_DP) THEN FaultOverride(resolved, a2.fault) ELSE resolved
        decoded ==
            IF PositionGate(pos) THEN DecodePosition(a2, pos.blob)
            ELSE [attrs |-> a2, exc |-> "none"]
    IN  [state |-> final_state,
         battery_level |-> Gated(CONF_BATTERY_DP, battery_level, dps_conf(status, CONF_BATTERY_DP)),
         cleaning_mode |-> Gated(CONF_MODES, StrV(""), dps_conf(status, CONF_MODE_DP)),
         fan_speed |-> Gated(CONF_FAN_SPEEDS, StrV(""), dps_conf(status, CONF_FAN_SPEED_DP)),
         attrs |-> decoded.attrs,
         reset |-> reset,
         exc |-> decoded.exc]

\* LocaltuyaVacuum.status_updated(status): `status' is the snapshot the entity has
\* cached when it is called; pos.present says whether the position datapoint's id is
\* a key of it, and pos.blob is then that datapoint's value.
status_updated(status, pos) ==
    /\ _status' = status
    /\ \E d \in {StatusDecode(_state, _battery_level, _attrs, status, pos)} :
        /\ _state' = d.state
        /\ _battery_level' = d.battery_level
        /\ _cleaning_mode' = d.cleaning_mode
        /\ _fan_speed' = d.fan_speed
        /\ _attrs' = d.attrs
        /\ op' = Call("status_updated")
        /\ writes' = <<>>
        /\ raised' = IF d.exc \in CaughtExceptions THEN "none" ELSE d.exc
        /\ log' = (IF d.reset THEN {"Resetting PATH"} ELSE {})
                    \cup (IF d.exc \in CaughtExceptions
                          THEN {"Couldn't parse position"} ELSE {})
        /\ set_dp_result' = "none"
    /\ UNCHANGED <<configVars, suspended>>

(***************************************************************************)
(* The status updates the transport delivers.                              *)
(***************************************************************************)
StatusValues ==
    {StrV("standby"), StrV("charging"), StrV("docking"), StrV("paused"), StrV("smart"),
     BoolV(TRUE)}
FaultValues == {IntV(0), IntV(1)}
ModeOf(g) == IF g % 2 = 1 THEN StrV("smart") ELSE StrV("spiral")
FanOf(g) == IF g % 2 = 1 THEN StrV("low") ELSE StrV("high")

\* the datapoints one device report changes, with their new values
Reports ==
    {<<>>}
    \cup {DpOf[CONF_ID] :> v : v \in StatusValues}
    \cup {DpOf[CONF_FAULT_DP] :> v : v \in FaultValues}
    \cup {(DpOf[CONF_BATTERY_DP] :> IntV(10 * g)) @@ (DpOf[CONF_CLEAN_TIME_DP] :> IntV(10 * g + 1))
          @@ (DpOf[CONF_CLEAN_AREA_DP] :> IntV(10 * g + 2))
          @@ (DpOf[CONF_CLEAN_RECORD_DP] :> IntV(10 * g + 3))
          @@ (DpOf[CONF_MODE_DP] :> ModeOf(g)) @@ (DpOf[CONF_FAN_SPEED_DP] :> FanOf(g)) :
          g \in 1..MaxGen}

\* the cached status after a report
Merge(status, report) ==
    [d \in DOMAIN status |-> IF d \in DOMAIN report THEN report[d] ELSE status[d]]

NoPosition == [present |-> FALSE, blob |-> PosArrayBlob(<<>>)]
WithPosition(b) == [present |-> TRUE, blob |-> b]

\* the transport delivers a report; the entity caches the snapshot and decodes it
StatusUpdate(reports, blobs) ==
    \E report \in reports, pos \in {NoPosition} \cup {WithPosition(b) : b \in blobs} :
        status_updated(Merge(_status, report), pos)

(***************************************************************************)
(* Commands.  A command's outcome is the set_dp calls it issued, the       *)
(* exception it raised to its caller and what it logged; no command        *)
(* assigns a field of the entity.                                          *)
(***************************************************************************)
DefaultRoom == 4
DefaultMapId == 1695662532
DefaultSize == 300
StructuredCommandDp == 127

\* the value argument of a set_dp call: a bool, a str, or the base64 text of
\* the JSON text of an envelope (env holds the envelope that was encoded)
BoolW(b) == [t |-> "bool", s |-> "", n |-> IF b THEN 1 ELSE 0, env |-> <<>>]
StrW(x) == [t |-> "str", s |-> x, n |-> 0, env |-> <<>>]
\* base64.b64encode(json.dumps(command_params).encode('utf-8')).decode('utf-8')
B64Json(command_params) == [t |-> "b64json", s |-> "", n |-> 0, env |-> <<command_params>>]

SetDp(value, dp) == [value |-> value, dp |-> dp]

Outcome(w, exc, l) == [writes |-> w, raised |-> exc, log |-> l]

\* await self._device.set_dp(value, self._config[conf]): the lookup raises KeyError
\* when the option is not in the entry
WriteConf(value, conf) ==
    IF conf \in _config.has
    THEN Outcome(<<SetDp(value, DpOf[conf])>>, "none", {})
    ELSE Outcome(<<>>, "KeyError", {})

\* the parameters of async_send_command: `has' is the set of keys of params
Params(has, mode, room, map_id, x, y, size, vertices, relative_vertices) ==
    [has |-> has, mode |-> mode, room |-> room, map_id |-> map_id, x |-> x, y |-> y,
     size |-> size, vertices |-> vertices, relative_vertices |-> relative_vertices]

NoParams == Params({}, "", 0, 0, Rat(0, 1), Rat(0, 1), 0, <<>>, <<>>)

\* params.get(key, default)
ParamGet(params, key, default) == IF key \in params.has THEN params[key] ELSE default

CleanStart == [data |-> [mode |-> "reAppointClean"], infoType |-> 21005]

Envelope(target) ==
    [dInfo |-> [ts |-> "int(time.time() * 1000)", userId |-> "0"],
     data |-> [cmds |-> <<target, CleanStart>>, mainCmds |-> <<21005>>],
     infoType |-> 30000, message |-> "ok"]

\* LocaltuyaVacuum.get_command_params_clean
get_command_params_clean(vertices, map_id) ==
    Envelope([data |-> [cleanId |-> <<-3>>,
                        extraAreas |-> <<[active |-> "depth", id |-> 100, mode |-> "point",
                                          name |-> "aa", tag |-> "room", vertexs |-> vertices]>>,
                        mapId |-> map_id, segmentId |-> <<>>],
              infoType |-> 21023])

\* async_send_command, lines 245-248: the envelope of clean_room
RoomEnvelope(room_id, map_id) ==
    Envelope([data |-> [cleanId |-> <<-3>>, extraAreas |-> <<>>,
                        mapId |-> map_id, segmentId |-> <<room_id>>],
              infoType |-> 21023])

\* async_send_command, lines 260-261: the square of side `size' around (x, y)
SpotVertices(x, y, size) ==
    LET h == Rat(size, 2)
        cx == RatInt(x)
        cy == RatInt(y)
    IN  <<<<RatSub(cx, h), RatSub(cy, h)>>, <<RatSub(cx, h), RatAdd(cy, h)>>,
          <<RatAdd(cx, h), RatAdd(cy, h)>>, <<RatAdd(cx, h), RatSub(cy, h)>>>>

\* async_send_command, lines 268-272: the loop over relative_vertices:
\* [exc |-> the exception it ends with or "none", vertices |-> the list built]
RECURSIVE AbsoluteVertices(_)
AbsoluteVertices(relative_vertices) ==
    IF relative_vertices = <<>> THEN [exc |-> "none", vertices |-> <<>>]
    ELSE LET a == calculate_absolute_position(relative_vertices[1][1], relative_vertices[1][2])
             rest == AbsoluteVertices(Tail(relative_vertices))
         IN  IF a.exc # "none" THEN [exc |-> a.exc, vertices |-> <<>>]
             ELSE IF rest.exc # "none" THEN rest
             ELSE [exc |-> "none",
                   vertices |-> <<<<RatInt(a.x), RatInt(a.y)>>>> \o rest.vertices]

\* LocaltuyaVacuum.async_send_command: its outcome
SendCommandOutcome(command, params) ==
    IF command = "set_mode" /\ "mode" \in params.has
    THEN WriteConf(StrW(params.mode), CONF_MODE_DP)
    ELSE IF command = "clean_room"
    THEN LET room_id == ParamGet(params, "room", DefaultRoom)
             map_id == ParamGet(params, "map_id", DefaultMapId)
         IN  Outcome(<<SetDp(B64Json(RoomEnvelope(room_id, map_id)), StructuredCommandDp)>>,
                     "none", {})
    ELSE IF command = "clean_spot"
    THEN LET x == ParamGet(params, "x", Rat(1, 2))
             y == ParamGet(params, "y", Rat(1, 2))
             size == ParamGet(params, "size", DefaultSize)
             a == calculate_absolute_position(x, y)
             map_id == ParamGet(params, "map_id", DefaultMapId)
             command_params == get_command_params_clean(SpotVertices(a.x, a.y, size), map_id)
         IN  IF a.exc # "none" THEN Outcome(<<>>, a.exc, {})
             ELSE Outcome(<<SetDp(B64Json(command_params), StructuredCommandDp)>>,
                          "none", {"Absolute position"})
    ELSE IF command = "clean_area"
    THEN LET converted == AbsoluteVertices(ParamGet(params, "relative_vertices", <<>>))
             vertices == IF "vertices" \in params.has THEN params.vertices
                         ELSE converted.vertices
             map_id == ParamGet(params, "map_id", DefaultMapId)
             command_params == get_command_params_clean(vertices, map_id)
         IN  IF "vertices" \notin params.has /\ converted.exc # "none"
             THEN Outcome(<<>>, converted.exc, {})
             ELSE Outcome(<<SetDp(B64Json(command_params), StructuredCommandDp)>>, "none", {})
    ELSE Outcome(<<>>, "none", {})

\* what a failed set_dp raises in the command that awaits it
SetDpFailure == "set_dp failure"

\* Await with a handler around the write: a failed set_dp is dropped
Await_Swallowing(outcome, result) ==
    [writes |-> outcome.writes, raised |-> outcome.raised, log |-> outcome.log,
     set_dp_result |-> IF outcome.writes = <<>> THEN "none" ELSE result]

\* `await self._device.set_dp(...)' as the last statement of a command whose
\* run up to there is `outcome': the write was issued once, there is no
\* handler and no loop around it, so what set_dp raises is raised by the command
Await(outcome, result) ==
    [writes |-> outcome.writes,
     raised |-> IF outcome.writes # <<>> /\ result = "failed" THEN SetDpFailure
                ELSE outcome.raised,
     log |-> outcome.log,
     set_dp_result |-> IF outcome.writes = <<>> THEN "none" ELSE result]

\* Returns that records the requested fan speed as the current one
Returns_OptimisticFanSpeed(call, outcome) ==
    /\ op' = call
    /\ writes' = outcome.writes
    /\ raised' = outcome.raised
    /\ log' = outcome.log
    /\ set_dp_result' = outcome.set_dp_result
    /\ _fan_speed' = IF call.name = "async_set_fan_speed" THEN StrV(call.fan_speed)
                     ELSE _fan_speed
    /\ UNCHANGED <<configVars, _status, _state, _battery_level, _attrs, _cleaning_mode>>

\* a command method returns to its caller: no command assigns a field of the entity
Returns(call, outcome) ==
    /\ op' = call
    /\ writes' = outcome.writes
    /\ raised' = outcome.raised
    /\ log' = outcome.log
    /\ set_dp_result' = outcome.set_dp_result
    /\ UNCHANGED <<configVars, decoderVars>>

\* a command method called and run to its end, its write succeeding
Called(call, outcome) ==
    /\ Returns(call, Await(outcome, "ok"))
    /\ UNCHANGED suspended

\* a command method called while the transport is slow: a command that reaches
\* its await is suspended there, any other returns at once
Invoke(call, outcome) ==
    IF outcome.writes # <<>>
    THEN /\ Len(suspended) < MaxSuspended
         /\ suspended' = Append(suspended, [call |-> call, outcome |-> outcome,
                                            state_at_call |-> _state])
         /\ UNCHANGED <<configVars, decoderVars, callVars>>
    ELSE /\ Returns(call, Await(outcome, "ok"))
         /\ UNCHANGED suspended

\* the set_dp of the i-th suspended call ends with `result': the call resumes
\* and returns
Resume(i, result) ==
    /\ Returns(suspended[i].call, Await(suspended[i].outcome, result))
    /\ suspended' = SubSeq(suspended, 1, i - 1) \o SubSeq(suspended, i + 1, Len(suspended))

\* LocaltuyaVacuum.async_start
async_start == Called(Call("async_start"), WriteConf(BoolW(TRUE), CONF_POWERGO_DP))

\* LocaltuyaVacuum.async_pause
async_pause == Called(Call("async_pause"), WriteConf(BoolW(FALSE), CONF_POWERGO_DP))

\* LocaltuyaVacuum.async_return_to_base: its outcome
ReturnToBaseOutcome ==
    IF has_config(CONF_RETURN_MODE)
    THEN WriteConf(StrW(_config.return_mode), CONF_MODE_DP)
    ELSE Outcome(<<>>, "none", {"Missing command for return home in commands set."})

async_return_to_base == Called(Call("async_return_to_base"), ReturnToBaseOutcome)

\* LocaltuyaVacuum.async_stop
async_stop == Called(Call("async_stop"), WriteConf(BoolW(FALSE), CONF_POWERGO_DP))

\* LocaltuyaVacuum.async_clean_spot
async_clean_spot == Called(Call("async_clean_spot"), Outcome(<<>>, "none", {}))

\* LocaltuyaVacuum.async_locate: its outcome
LocateOutcome ==
    IF has_config(CONF_LOCATE_DP) THEN WriteConf(StrW(""), CONF_LOCATE_DP)
    ELSE Outcome(<<>>, "none", {})

async_locate == Called(Call("async_locate"), LocateOutcome)

\* LocaltuyaVacuum.async_set_fan_speed: its outcome
SetFanSpeedOutcome(fan_speed) == WriteConf(StrW(fan_speed), CONF_FAN_SPEED_DP)

async_set_fan_speed(fan_speed) ==
    Called([Call("async_set_fan_speed") EXCEPT !.fan_speed = fan_speed],
           SetFanSpeedOutcome(fan_speed))

\* LocaltuyaVacuum.async_send_command (params None is params {})
async_send_command(command, params) ==
    Called([Call("async_send_command") EXCEPT !.command = command, !.params = <<params>>],
           SendCommandOutcome(command, params))

(***************************************************************************)
(* The main specification: status updates and every command, on entities   *)
(* of every profile.                                                       *)
(***************************************************************************)
Half == Rat(1, 2)

\* the (command, params) pairs callers send
SendCommands ==
    {<<"set_mode", [NoParams EXCEPT !.has = {"mode"}, !.mode = "smart"]>>,
     <<"set_mode", [NoParams EXCEPT !.has = {"mode"}, !.mode = "spiral"]>>,
     <<"set_mode", NoParams>>,
     <<"set_mode", [NoParams EXCEPT !.has = {"room"}, !.room = 7]>>,
     <<"dock", [NoParams EXCEPT !.has = {"mode"}, !.mode = "smart"]>>,
     <<"", NoParams>>,
     <<"clean_room", NoParams>>,
     <<"clean_room", [NoParams EXCEPT !.has = {"room", "map_id"}, !.room = 7, !.map_id = 9]>>,
     <<"clean_spot", NoParams>>,
     <<"clean_spot", [NoParams EXCEPT !.has = {"x", "y", "size"}, !.x = Rat(21, 2),
                                       !.y = Rat(81, 4), !.size = 3]>>,
     <<"clean_area", NoParams>>,
     <<"clean_area", [NoParams EXCEPT !.has = {"vertices"},
                                       !.vertices = <<<<Rat(5, 1), Rat(-7, 2)>>>>]>>,
     <<"clean_area", [NoParams EXCEPT !.has = {"relative_vertices"},
                                       !.relative_vertices = <<<<Half, Half>>, <<Rat(3, 5), Half>>>>]>>,
     <<"clean_area", [NoParams EXCEPT !.has = {"vertices", "relative_vertices"},
                                       !.vertices = <<<<Rat(5, 1), Rat(-7, 2)>>>>,
                                       !.relative_vertices = <<<<Half, Half>>>>]>>}

FanSpeeds == {"low", "high"}

\* the position blobs of the main specification: a pair, a blob whose decoding
\* fails and is caught, a blob whose decoding fails and is not
MainBlobs ==
    {PosArrayBlob(<<PairE(MaxCoord, 0 - MaxCoord)>>),
     Blob("binascii.Error", "ok", "obj", "obj", "list", <<>>),
     Blob("ok", "ok", "other", "obj", "list", <<>>)}

\* an entry written before return_mode had a default
LegacyConfig ==
    [MkConfig(CommandProfile, DefaultLists, Rat(1, 1), <<Rat(0, 1), Rat(0, 1)>>, 0)
        EXCEPT !.has = @ \ {CONF_RETURN_MODE}]

Configs ==
    {MkConfig(h, DefaultLists, Rat(1, 1), <<Rat(0, 1), Rat(0, 1)>>, 0) :
        h \in {BareProfile, CommandProfile}}
    \cup {MkConfig(FullProfile, DefaultLists, Rat(2, 1), <<Rat(10, 1), Rat(20, 1)>>, 1),
          MkConfig(FullProfile, DefaultLists, Rat(0, 1), <<Rat(0, 1), Rat(0, 1)>>, 0),
          LegacyConfig}

Init == \E c \in Configs : Construct(c)

\* the reports of the main specification: three status values, every fault
\* value and every value of the other datapoints
MainReports ==
    {r \in Reports :
        DpOf[CONF_ID] \in DOMAIN r
            => r[DpOf[CONF_ID]] \in {StrV("standby"), StrV("charging"), StrV("smart")}}

Next ==
    \/ StatusUpdate(MainReports, MainBlobs)
    \/ async_start
    \/ async_pause
    \/ async_return_to_base
    \/ async_stop
    \/ async_clean_spot
    \/ async_locate
    \/ \E fan_speed \in FanSpeeds : async_set_fan_speed(fan_speed)
    \/ \E c \in SendCommands : async_send_command(c[1], c[2])

Spec == Init /\ [][Next]_vars

(***************************************************************************)
(* The decoder specification: status updates alone, with every position    *)
(* blob, on entities of every list variant.                                *)
(***************************************************************************)
\* two coordinate pairs, and every malformed blob
DecoderBlobs ==
    {PosArrayBlob(<<PairE(MaxCoord, 0 - MaxCoord)>>), PosArrayBlob(<<PairE(0, 1)>>)}
    \cup MalformedBlobs

DecoderConfigs ==
    {MkConfig(h, l, Rat(1, 1), <<Rat(0, 1), Rat(0, 1)>>, 0) :
        h \in {BareProfile, {CONF_FAULT_DP}},
        l \in {DefaultLists, OverlapLists, ShadowLists}}
    \cup {MkConfig(FullProfile, DefaultLists, Rat(2, 1), <<Rat(10, 1), Rat(20, 1)>>, 1)}

InitDecoder == \E c \in DecoderConfigs : Construct(c)

NextDecoder == StatusUpdate(Reports, DecoderBlobs)

SpecDecoder == InitDecoder /\ [][NextDecoder]_vars

(***************************************************************************)
(* The geometry specification: entities of every scale, origin and         *)
(* rotation receive coordinate pairs and are sent clean_area and           *)
(* clean_spot with relative coordinates, among them the relative position  *)
(* the entity reports.                                                     *)
(***************************************************************************)
InitGeometry == \E c \in GeoConfigs : Construct(c)

\* relative coordinates callers send: fixed ones, and the reported relative position
RelativeInputs ==
    {<<Half, Half>>, <<Rat(3, 5), Half>>, <<Half, Rat(1, 4)>>}
    \cup (IF _attrs.relative_position.t = "pair"
          THEN {<<_attrs.relative_position.x, _attrs.relative_position.y>>}
          ELSE {})

\* the clean_spot and clean_area calls of the main specification: defaults,
\* literal vertices, several relative vertices
GeometryCommands == {c \in SendCommands : c[1] \in {"clean_spot", "clean_area"}}

NextGeometry ==
    \/ StatusUpdate({<<>>}, ValidBlobs)
    \/ \E v \in RelativeInputs :
          async_send_command("clean_area",
              [NoParams EXCEPT !.has = {"relative_vertices"}, !.relative_vertices = <<v>>])
    \/ \E v \in RelativeInputs :
          async_send_command("clean_spot",
              [NoParams EXCEPT !.has = {"x", "y"}, !.x = v[1], !.y = v[2]])
    \/ \E c \in GeometryCommands : async_send_command(c[1], c[2])

SpecGeometry == InitGeometry /\ [][NextGeometry]_vars

(***************************************************************************)
(* The asynchronous specification: commands are suspended at their write,  *)
(* status updates arrive meanwhile, and the transport ends each write with *)
(* success or with failure.                                                *)
(***************************************************************************)
AsyncConfigs ==
    {MkConfig(BareProfile, DefaultLists, Rat(1, 1), <<Rat(0, 1), Rat(0, 1)>>, 0),
     MkConfig(FullProfile, DefaultLists, Rat(2, 1), <<Rat(10, 1), Rat(20, 1)>>, 1)}

InitAsync == \E c \in AsyncConfigs : Construct(c)

AsyncReports ==
    {DpOf[CONF_ID] :> v : v \in {StrV("charging"), StrV("smart")}}
    \cup {DpOf[CONF_FAULT_DP] :> IntV(0)}

AsyncBlobs == {PosArrayBlob(<<PairE(MaxCoord, 0 - MaxCoord)>>)}

\* every command method, as <<call, its run up to the await>>
Invocations ==
    {<<Call("async_start"), WriteConf(BoolW(TRUE), CONF_POWERGO_DP)>>,
     <<Call("async_pause"), WriteConf(BoolW(FALSE), CONF_POWERGO_DP)>>,
     <<Call("async_return_to_base"), ReturnToBaseOutcome>>,
     <<Call("async_stop"), WriteConf(BoolW(FALSE), CONF_POWERGO_DP)>>,
     <<Call("async_clean_spot"), Outcome(<<>>, "none", {})>>,
     <<Call("async_locate"), LocateOutcome>>,
     <<[Call("async_set_fan_speed") EXCEPT !.fan_speed = "low"], SetFanSpeedOutcome("low")>>}
    \cup {<<[Call("async_send_command") EXCEPT !.command = c[1], !.params = <<c[2]>>],
            SendCommandOutcome(c[1], c[2])>> :
             c \in {<<"set_mode", [NoParams EXCEPT !.has = {"mode"}, !.mode = "smart"]>>,
                    <<"set_mode", NoParams>>,
                    <<"clean_room", NoParams>>,
                    <<"clean_spot", NoParams>>,
                    <<"clean_area", [NoParams EXCEPT !.has = {"relative_vertices"},
                                                      !.relative_vertices = <<<<Half, Half>>>>]>>}}

NextAsync ==
    \/ StatusUpdate(AsyncReports, AsyncBlobs)
    \/ \E c \in Invocations : Invoke(c[1], c[2])
    \/ \E i \in 1..Len(suspended), result \in {"ok", "failed"} : Resume(i, result)

SpecAsync == InitAsync /\ [][NextAsync]_vars

(***************************************************************************)
(* Properties.                                                             *)
(***************************************************************************)
Updated == op.name = "status_updated"

\* the string form of the primary status value of the cached snapshot
StatusString == PyStr(_status[DpOf[CONF_ID]])

FaultConfigured == CONF_FAULT_DP \in _config.has
FaultValue == _status[DpOf[CONF_FAULT_DP]]
FaultIsZero == FaultValue.t = "int" /\ FaultValue.n = 0

\* the resolution order, on the options of the entry
OrderedState ==
    LET v == StatusString
        idle == InList(v, _config.idle_status_value)
        docked == InList(v, _config.docked_status_value)
        returning == v = _config.returning_status_value
        paused == v = _config.paused_state
    IN  CASE idle -> STATE_IDLE
          [] ~idle /\ docked -> STATE_DOCKED
          [] ~idle /\ ~docked /\ returning -> STATE_RETURNING
          [] ~idle /\ ~docked /\ ~returning /\ paused -> STATE_PAUSED
          [] OTHER -> STATE_CLEANING

\* C1: after a status update to which no fault override applies (no fault
\* datapoint, or its value is 0), the state is the first match of the string
\* form of the primary status value in the order idle list, docked list,
\* returning value, paused value, else Cleaning.
C1_ResolutionOrder ==
    (Updated /\ (~FaultConfigured \/ FaultIsZero)) => _state = OrderedState

\* C1 witness: an update whose status value is in the idle and the docked list
C1_Witness ==
    /\ Updated
    /\ ~FaultConfigured \/ FaultIsZero
    /\ InList(StatusString, _config.idle_status_value)
    /\ InList(StatusString, _config.docked_status_value)
    /\ _state = STATE_IDLE

\* C2: after a status update on an entity with a fault datapoint whose value in
\* the snapshot is not 0, the state is Error, whatever the status value resolves to.
C2_FaultOverride ==
    (Updated /\ FaultConfigured /\ ~FaultIsZero) => _state = STATE_ERROR

\* C2 witness: a fault reported while the status value is a docked one
C2_Witness ==
    /\ Updated
    /\ FaultConfigured
    /\ FaultValue = IntV(1)
    /\ OrderedState = STATE_DOCKED
    /\ _state = STATE_ERROR

\* C3: an update resets the path history if and only if the state before it was
\* Docked and the state after it is not Docked.
C3_ResetIffLeftDock ==
    [][op'.name = "status_updated"
        => (("Resetting PATH" \in log') <=> (_state = STATE_DOCKED /\ _state' # STATE_DOCKED))]_vars

\* C4 as claimed: in every reachable state, from construction onward, the state
\* is one of the six variants.
C4_AlwaysAVariant == _state \in VacuumStates

\* C4: the state is one of the six variants after every status update, and from
\* then on through every later update and command (it is None before the first).
C4_VariantOnceUpdated ==
    [][(op'.name = "status_updated" \/ _state \in VacuumStates) => _state' \in VacuumStates]_vars

\* C4 witness: a command called on an entity that has decoded a status update
C4_Witness == op.name = "async_send_command" /\ _state \in VacuumStates

\* C5: a status update whose position blob is malformed returns without raising
\* and leaves the raw and the relative position as they were.
C5_MalformedBlobIgnored ==
    [][\A b \in MalformedBlobs, r \in Reports :
          status_updated(Merge(_status, r), WithPosition(b))
              => /\ raised' = "none"
                 /\ _attrs'.position = _attrs.position
                 /\ _attrs'.relative_position = _attrs.relative_position]_vars

\* the value the snapshot holds for the datapoint of option `conf'
Snapshot(conf) == _status[DpOf[conf]]

\* C6: after every status update, whatever its position blob was and whether or
\* not decoding it failed, the state and every attribute whose datapoint is
\* configured hold the values of the current snapshot.
C6_AttributesReflectSnapshot ==
    Updated =>
        /\ _state = IF FaultConfigured /\ ~FaultIsZero THEN STATE_ERROR ELSE OrderedState
        /\ CONF_BATTERY_DP \in _config.has => _battery_level = Snapshot(CONF_BATTERY_DP)
        /\ CONF_MODE_DP \in _config.has
              => _cleaning_mode = Snapshot(CONF_MODE_DP)
                 /\ _attrs.cleaning_mode = Snapshot(CONF_MODE_DP)
        /\ CONF_FAN_SPEED_DP \in _config.has => _fan_speed = Snapshot(CONF_FAN_SPEED_DP)
        /\ CONF_CLEAN_TIME_DP \in _config.has => _attrs.clean_time = Snapshot(CONF_CLEAN_TIME_DP)
        /\ CONF_CLEAN_AREA_DP \in _config.has => _attrs.clean_area = Snapshot(CONF_CLEAN_AREA_DP)
        /\ CONF_CLEAN_RECORD_DP \in _config.has
              => _attrs.clean_record = Snapshot(CONF_CLEAN_RECORD_DP)
        /\ FaultConfigured => _attrs.fault = FaultValue

\* C6 witness: an update whose blob could not be decoded, on an entity with every
\* datapoint configured, after the device reported values for all of them
C6_Witness ==
    /\ Updated
    /\ raised # "none" \/ "Couldn't parse position" \in log
    /\ SchemaOptional \subseteq _config.has
    /\ _battery_level.t = "int"
    /\ _attrs.clean_record.t = "int"
    /\ _attrs.fault = IntV(0)
    /\ _state = STATE_DOCKED

\* C7: no command reaches a division by zero (a scale of zero having been
\* rejected when the entity was constructed).
C7_NoDivisionByZero == raised # "ZeroDivisionError"

\* the vertices of the area the last call wrote to the structured-command datapoint
WrittenVertices == writes[1].value.env[1].data.cmds[1].data.extraAreas[1].vertexs

\* the last call is clean_area with the reported relative position as its one
\* relative vertex (and no literal vertices, which would be written instead)
SentReportedPosition ==
    /\ op.name = "async_send_command"
    /\ op.command = "clean_area"
    /\ "vertices" \notin op.params[1].has
    /\ _attrs.position.t = "pair"
    /\ _attrs.relative_position.t = "pair"
    /\ op.params[1].relative_vertices =
          <<<<_attrs.relative_position.x, _attrs.relative_position.y>>>>

\* C8: for every rotation, non-zero scale and origin, the relative position
\* computed from a device pair (x, y) converts back to the pair (x, y).
C8_RoundTrip ==
    (SentReportedPosition /\ ~RatIsZero(_position_relative_scale))
        => /\ raised = "none"
           /\ Len(writes) = 1
           /\ WrittenVertices = <<<<RatInt(_attrs.position.x), RatInt(_attrs.position.y)>>>>

\* C8 witness: a round trip under the axis swap, a fractional scale and an origin
C8_Witness ==
    /\ SentReportedPosition
    /\ _position_axis_rotation = 1
    /\ _position_relative_scale = Rat(1, 2)
    /\ _position_relative_origin = <<Rat(10, 1), Rat(20, 1)>>
    /\ _attrs.position = PairE(MaxCoord, 0 - MaxCoord)
    /\ Len(writes) = 1

\* the call `call' is one of the dispatcher's silent no-ops
SilentNoOp(call) ==
    /\ call.name = "async_send_command"
    /\ \/ call.command = "set_mode" /\ "mode" \notin call.params[1].has
       \/ call.command \notin {"set_mode", "clean_room", "clean_spot", "clean_area"}

\* the call `call' is set_mode with a mode parameter
SetMode(call) ==
    /\ call.name = "async_send_command"
    /\ call.command = "set_mode"
    /\ "mode" \in call.params[1].has

\* the last call made exactly one write, of the str `value' to datapoint `dp'
WroteOnce(w, value, dp) ==
    /\ Len(w) = 1
    /\ w[1].dp = dp
    /\ w[1].value.t = "str"
    /\ w[1].value.s = value

\* C9 as claimed: a silent no-op writes nothing, raises nothing and leaves the
\* entity as it was; set_mode with a mode parameter makes exactly one write, of
\* that mode to the mode datapoint.
C9_SetModeAlwaysWrites ==
    [][/\ SilentNoOp(op') => (writes' = <<>> /\ raised' = "none"
                              /\ UNCHANGED <<configVars, decoderVars>>)
       /\ SetMode(op') => (raised' = "none"
                           /\ WroteOnce(writes', op'.params[1].mode, DpOf[CONF_MODE_DP]))]_vars

\* C9: as claimed for the silent no-ops; set_mode with a mode parameter makes
\* exactly one write, of that mode to the mode datapoint, when the entity has a
\* mode datapoint, and raises KeyError without writing when it has none.
C9_SilentNoOps ==
    [][/\ SilentNoOp(op') => (writes' = <<>> /\ raised' = "none"
                              /\ UNCHANGED <<configVars, decoderVars>>)
       /\ SetMode(op') =>
            IF CONF_MODE_DP \in _config.has
            THEN raised' = "none" /\ WroteOnce(writes', op'.params[1].mode, DpOf[CONF_MODE_DP])
            ELSE raised' = "KeyError" /\ writes' = <<>>]_vars

\* C9 witness: set_mode without a mode on an entity that has a mode datapoint
\* and has decoded a status update
C9_Witness ==
    /\ SilentNoOp(op)
    /\ op.command = "set_mode"
    /\ CONF_MODE_DP \in _config.has
    /\ _state \in VacuumStates
    /\ writes = <<>>

\* the last call made no write and raised nothing
NoWriteNoError == writes = <<>> /\ raised = "none"

\* C10: locate, return-to-base and set-fan-speed make no write and raise nothing
\* when the datapoint they write to is not configured, and make exactly one
\* write to it when it is.
C10_GatedOnDatapoint ==
    /\ op.name = "async_locate" =>
          IF CONF_LOCATE_DP \in _config.has
          THEN raised = "none" /\ WroteOnce(writes, "", DpOf[CONF_LOCATE_DP])
          ELSE NoWriteNoError
    /\ op.name = "async_return_to_base" =>
          IF CONF_MODE_DP \in _config.has
          THEN raised = "none" /\ WroteOnce(writes, _config.return_mode, DpOf[CONF_MODE_DP])
          ELSE NoWriteNoError
    /\ op.name = "async_set_fan_speed" =>
          IF CONF_FAN_SPEED_DP \in _config.has
          THEN raised = "none" /\ WroteOnce(writes, op.fan_speed, DpOf[CONF_FAN_SPEED_DP])
          ELSE NoWriteNoError

\* the option `conf' is not in the entry
Unbound(conf) == conf \notin _config.has

\* C11: an attribute whose own datapoint is not configured is never assigned a
\* value from the snapshot and never appears among the attributes (the battery
\* level stays None; the mode and fan speed fields hold no value, "" or None).
C11_OnlyBoundAttributes ==
    /\ Unbound(CONF_BATTERY_DP) => _battery_level = NoneV
    /\ Unbound(CONF_MODE_DP)
          => _attrs.cleaning_mode = Absent /\ _cleaning_mode \in {StrV(""), NoneV}
    /\ Unbound(CONF_FAN_SPEED_DP) => _fan_speed \in {StrV(""), NoneV}
    /\ Unbound(CONF_CLEAN_TIME_DP) => _attrs.clean_time = Absent
    /\ Unbound(CONF_CLEAN_AREA_DP) => _attrs.clean_area = Absent
    /\ Unbound(CONF_CLEAN_RECORD_DP) => _attrs.clean_record = Absent
    /\ Unbound(CONF_FAULT_DP) => _attrs.fault = Absent

\* the call `call' is one of the three structured commands
StructuredCommand(call) ==
    /\ call.name = "async_send_command"
    /\ call.command \in {"clean_room", "clean_spot", "clean_area"}

\* C12: every clean_room, clean_spot and clean_area call makes exactly one
\* write, to the structured-command datapoint, which is not the power/start
\* datapoint; the envelope written holds two sub-commands: the target (for
\* clean_room the segment list with the room id and no extra area, otherwise
\* one extra area and an empty segment list, with the map id), then the
\* clean-start directive.
C12_StructuredCommandEnvelope ==
    StructuredCommand(op) =>
        /\ Len(writes) = 1
        /\ writes[1].dp = StructuredCommandDp
        /\ writes[1].dp # DpOf[CONF_POWERGO_DP]
        /\ writes[1].value.t = "b64json"
        /\ LET cmds == writes[1].value.env[1].data.cmds
               target == cmds[1].data
           IN  /\ Len(cmds) = 2
               /\ cmds[2] = CleanStart
               /\ target.mapId = ParamGet(op.params[1], "map_id", DefaultMapId)
               /\ IF op.command = "clean_room"
                  THEN /\ target.segmentId = <<ParamGet(op.params[1], "room", DefaultRoom)>>
                       /\ target.extraAreas = <<>>
                  ELSE /\ target.segmentId = <<>>
                       /\ Len(target.extraAreas) = 1

\* C13: every command issues at most one set_dp per invocation; when that
\* set_dp fails, the command raises the failure to its caller and has issued
\* no other write.
C13_NoRetryNoSwallow ==
    /\ Len(writes) <= 1
    /\ set_dp_result = "failed" => (raised = SetDpFailure /\ Len(writes) = 1)

\* C13 witness: the structured command clean_spot, resumed by a failed write
C13_Witness ==
    /\ StructuredCommand(op)
    /\ op.command = "clean_spot"
    /\ set_dp_result = "failed"
    /\ raised = SetDpFailure
    /\ writes[1].dp = StructuredCommandDp

\* C14: a step of a command (its call, its suspension at the write, its
\* resumption, with the write succeeding or failing) changes no part of the
\* decoder's state: only status_updated does, so the decoded state is the one
\* the status updates alone produce in their order of arrival.
C14_OnlyStatusUpdatedDecodes ==
    [][(suspended' # suspended \/ op'.name # "status_updated")
          => UNCHANGED decoderVars]_vars

\* C14 witness: a status update took the vacuum from Docked to Cleaning and
\* stored a position while a command called before it is suspended on its write
C14_Witness ==
    /\ Len(suspended) = 1
    /\ suspended[1].call.name = "async_set_fan_speed"
    /\ suspended[1].state_at_call = STATE_DOCKED
    /\ Updated
    /\ _state = STATE_CLEANING
    /\ _attrs.position.t = "pair"

\* the entity has the identity-like geometry: scale 1, origin [0, 0], rotation 0
IdentityGeometry ==
    /\ _position_relative_scale = Rat(1, 1)
    /\ _position_relative_origin = <<Rat(0, 1), Rat(0, 1)>>
    /\ _position_axis_rotation = 0

\* the last call is clean_area with relative_vertices [[0.5, 0.5], [0.6, 0.5]]
SentPinnedVertices ==
    /\ op.name = "async_send_command"
    /\ op.command = "clean_area"
    /\ "vertices" \notin op.params[1].has
    /\ "relative_vertices" \in op.params[1].has
    /\ op.params[1].relative_vertices = <<<<Half, Half>>, <<Rat(3, 5), Half>>>>

\* C15 as claimed: under the identity-like geometry the pinned call writes the
\* vertices [[1, -1], [1, -1]] (a half rounded away from zero).
C15_HalvesAwayFromZero ==
    (IdentityGeometry /\ SentPinnedVertices)
        => /\ Len(writes) = 1
           /\ WrittenVertices = <<<<RatInt(1), RatInt(-1)>>, <<RatInt(1), RatInt(-1)>>>>

\* C15: under the identity-like geometry the pinned call writes the vertices
\* [[0, 0], [1, 0]]: each coordinate after rotation is rounded to the nearest
\* integer, a half to the even one (0.5 and -0.5 to 0, 0.6 to 1).
C15_HalvesToEven ==
    (IdentityGeometry /\ SentPinnedVertices)
        => /\ Len(writes) = 1
           /\ WrittenVertices = <<<<RatInt(0), RatInt(0)>>, <<RatInt(1), RatInt(0)>>>>

\* C15 witness: the pinned call made on an entity of the identity-like geometry
C15_Witness ==
    /\ IdentityGeometry
    /\ SentPinnedVertices
    /\ raised = "none"
    /\ Len(writes) = 1
    /\ writes[1].dp = StructuredCommandDp

\* the step changes the stored raw position or the stored relative position
PositionChanged ==
    \/ _attrs'.position # _attrs.position
    \/ _attrs'.relative_position # _attrs.relative_position

\* the blob `b' decodes to a one-element posArray whose element is the stored
\* raw position
CarriesStoredPosition(b) ==
    /\ b.b64 = "ok" /\ b.json = "ok" /\ b.top = "obj" /\ b.data = "obj"
    /\ b.posArray = "list"
    /\ Len(b.elems) = 1
    /\ b.elems[1] = _attrs.position

\* C16: a step that changes the stored raw or relative position is a status
\* update on an entity with a position datapoint; it is not an update whose
\* snapshot lacks the position datapoint's id, and not one whose blob decodes
\* to the raw position already stored.
C16_PositionGated ==
    [][PositionChanged
          => /\ op'.name = "status_updated"
             /\ CONF_POSITION_BASE64_DP \in _config.has
             /\ ~\E r \in Reports : status_updated(Merge(_status, r), NoPosition)
             /\ ~\E r \in Reports, b \in DecoderBlobs :
                    /\ CarriesStoredPosition(b)
                    /\ status_updated(Merge(_status, r), WithPosition(b))]_vars

\* C16 witness: an entity with a position datapoint has decoded a pair from a
\* snapshot that carried the blob, and holds its relative position
C16_Witness ==
    /\ Updated
    /\ CONF_POSITION_BASE64_DP \in _config.has
    /\ _attrs.position = PairE(0, 1)
    /\ _attrs.relative_position.t = "pair"
    /\ raised = "none"

\* the Geometry Transform of the raw pair (x, y): rotate by the configured
\* mode, multiply by the scale, add the origin
GeometryTransform(x, y) ==
    LET r == CASE _position_axis_rotation = 0 -> <<RatInt(x), RatInt(0 - y)>>
               [] _position_axis_rotation = 1 -> <<RatInt(y), RatInt(x)>>
               [] _position_axis_rotation = 2 -> <<RatInt(0 - x), RatInt(y)>>
               [] _position_axis_rotation = 3 -> <<RatInt(0 - x), RatInt(0 - y)>>
               [] OTHER -> <<RatInt(x), RatInt(y)>>
    IN  PairR(RatAdd(RatMul(r[1], _position_relative_scale), _position_relative_origin[1]),
              RatAdd(RatMul(r[2], _position_relative_scale), _position_relative_origin[2]))

\* C17: whenever a raw position is stored, it is a coordinate pair and the
\* stored relative position is its Geometry Transform.
C17_PositionConsistent ==
    _attrs.position.t \notin {"absent", "none"}
        => /\ _attrs.position.t = "pair"
           /\ _attrs.relative_position = GeometryTransform(_attrs.position.x, _attrs.position.y)

\* the decoder fields of a second entity of the same configuration: as
\* constructed, and after one or two earlier status updates of its own
TwinFresh ==
    [state |-> STATE_NONE, battery_level |-> NoneV,
     attrs |-> [path |-> <<>>, cleaning_mode |-> Absent, clean_time |-> Absent,
                clean_area |-> Absent, clean_record |-> Absent, fault |-> Absent,
                position |-> AbsentE, relative_position |-> AbsentR]]

TwinSnapshots ==
    {Merge(Merge(Merge([d \in StatusDps |-> NoneV], s), f), g) :
        s \in {DpOf[CONF_ID] :> StrV("charging"), DpOf[CONF_ID] :> StrV("smart")},
        f \in {DpOf[CONF_FAULT_DP] :> v : v \in FaultValues},
        g \in {r \in Reports : DpOf[CONF_BATTERY_DP] \in DOMAIN r}}

TwinAfter(h, status) ==
    LET d == StatusDecode(h.state, h.battery_level, h.attrs, status, NoPosition)
    IN  [state |-> d.state, battery_level |-> d.battery_level, attrs |-> d.attrs]

TwinHistories ==
    LET once == {TwinAfter(TwinFresh, x) : x \in TwinSnapshots}
    IN  {TwinFresh} \cup once \cup {TwinAfter(h, x) : h \in once, x \in TwinSnapshots}

\* C18: after a status update the state, battery level, cleaning mode, fan speed
\* and fault attribute are those any entity of the same configuration reaches
\* on the same snapshot, whatever updates and commands either had before.
C18_LastUpdateWins ==
    Updated =>
        \A h \in TwinHistories :
            \E d \in {StatusDecode(h.state, h.battery_level, h.attrs, _status, NoPosition)} :
                /\ d.state = _state
                /\ d.battery_level = _battery_level
                /\ d.cleaning_mode = _cleaning_mode
                /\ d.fan_speed = _fan_speed
                /\ d.attrs.fault = _attrs.fault

\* C18 witness: an entity with every datapoint bound decodes a snapshot that
\* shows it docked, without fault and with the latest battery level, while a
\* twin was in Error with another battery level before the same snapshot
C18_Witness ==
    /\ Updated
    /\ SchemaOptional \subseteq _config.has
    /\ _state = STATE_DOCKED
    /\ _battery_level = IntV(10 * MaxGen)
    /\ _attrs.fault = IntV(0)
    /\ _attrs.position.t = "pair"
    /\ \E h \in TwinHistories :
          h.state = STATE_ERROR /\ h.battery_level = IntV(10) /\ h.attrs.position.t = "absent"

\* toAbsolute before rounding: subtract the origin, divide by the scale, apply
\* the rotation of modes 0 to 3
ExactAbsolute(x, y) ==
    LET px == RatDiv(RatSub(x, _position_relative_origin[1]), _position_relative_scale)
        py == RatDiv(RatSub(y, _position_relative_origin[2]), _position_relative_scale)
    IN  CASE _position_axis_rotation = 0 -> <<px, RatNeg(py)>>
          [] _position_axis_rotation = 1 -> <<py, px>>
          [] _position_axis_rotation = 2 -> <<RatNeg(px), py>>
          [] _position_axis_rotation = 3 -> <<RatNeg(px), RatNeg(py)>>

\* the written coordinate `k' is an integer nearest to the exact value `v'
NearestInteger(k, v) ==
    /\ k[2] = 1
    /\ 2 * Abs(RatSub(k, v)[1]) <= RatSub(k, v)[2]

\* the written vertex `w' is toAbsolute of the relative pair `rel'
IsToAbsolute(w, rel) ==
    /\ NearestInteger(w[1], ExactAbsolute(rel[1], rel[2])[1])
    /\ NearestInteger(w[2], ExactAbsolute(rel[1], rel[2])[2])

\* the centre of the square the last call wrote
WrittenCentre ==
    <<RatMul(Half, RatAdd(WrittenVertices[1][1], WrittenVertices[3][1])),
      RatMul(Half, RatAdd(WrittenVertices[1][2], WrittenVertices[3][2]))>>

\* C19: on an entity with a non-zero scale and a rotation mode 0 to 3,
\* clean_spot writes the square around toAbsolute of its centre (default
\* (0.5, 0.5)); clean_area writes toAbsolute of each relative vertex, in order,
\* and writes literal vertices unconverted, in preference to relative ones.
C19_ToAbsolute ==
    (/\ op.name = "async_send_command"
     /\ op.command \in {"clean_spot", "clean_area"}
     /\ ~RatIsZero(_position_relative_scale)
     /\ _position_axis_rotation \in 0..3)
        => /\ Len(writes) = 1
           /\ LET params == op.params[1]
                  relative == ParamGet(params, "relative_vertices", <<>>)
              IN  IF op.command = "clean_spot"
                  THEN IsToAbsolute(WrittenCentre,
                                    <<ParamGet(params, "x", Half), ParamGet(params, "y", Half)>>)
                  ELSE IF "vertices" \in params.has
                  THEN WrittenVertices = params.vertices
                  ELSE /\ Len(WrittenVertices) = Len(relative)
                       /\ \A i \in 1..Len(relative) :
                              IsToAbsolute(WrittenVertices[i], relative[i])

\* C19 witness: rotation 0, scale 2, origin (10, 20): clean_area with the one
\* relative vertex (0.5, 0.25) writes the vertex (-5, 10)
C19_Witness ==
    /\ op.name = "async_send_command"
    /\ op.command = "clean_area"
    /\ _position_axis_rotation = 0
    /\ _position_relative_scale = Rat(2, 1)
    /\ _position_relative_origin = <<Rat(10, 1), Rat(20, 1)>>
    /\ op.params[1].relative_vertices = <<<<Half, Rat(1, 4)>>>>
    /\ Len(writes) = 1
    /\ WrittenVertices = <<<<RatInt(-5), RatInt(10)>>>>

\* C20: in every reachable state the path history is the empty sequence (so
\* also whenever the state is Docked): only the latest point is kept, in the
\* position attributes.
C20_PathAlwaysEmpty == _attrs.path = <<>>

\* C20 witness: a vacuum decodes a new position while Cleaning; the position
\* is stored and the path is empty
C20_Witness ==
    /\ Updated
    /\ _state = STATE_CLEANING
    /\ _attrs.position.t = "pair"
    /\ _attrs.relative_position.t = "pair"
    /\ _attrs.path = <<>>

====
